---- MODULE Spec2Model ----
(***************************************************************************)
(* State-machine model of the video-library pumps:                         *)
(*   VideoEncoder (src/src/video-encoder.cpp)  - the encode pump           *)
(*   VideoDecoder (src/src/video-decoder.cpp)  - the decode pump           *)
(* The codec, the container and the pixel converter are external; they are *)
(* modelled at the call sites by the outcomes their interface allows       *)
(* (libavcodec send/receive contract: a send answers EAGAIN only while     *)
(* output is waiting to be read, a receive answers EAGAIN only when no     *)
(* output is waiting and the codec is not draining, EOF only when          *)
(* draining).                                                              *)
(***************************************************************************)
EXTENDS Integers, Sequences, FiniteSets, TLC

\* ------------------------------------------------------------------ bounds
MaxFrames == 3      \* encodeFrame calls per encoder lifetime
MaxFinalize == 2    \* explicit finalize() calls per encoder lifetime
MaxErrors == 1      \* hard errors the encode capability may report
MaxUnits == 3       \* compressed units in a container read by a decoder
MaxSeeks == 1       \* seekToTimestamp calls per decoder
MaxDecErrors == 1   \* hard errors the decode side may report per decoder
MaxTicks == 30      \* stream ticks over which the rescale is compared
MaxWritten == 4     \* entries kept by the log of written units (flush loop)

\* ------------------------------------------------------------- value sets
\* m_sws_context == nullptr.
NullCtx == [w |-> 0, h |-> 0, id |-> 0]

\* Picture geometries <<width, height>> tried as output and input geometry.
OutGeoms == {<<2, 2>>}
Geoms == {<<2, 2>>, <<1, 2>>, <<2, 1>>}

\* lround(fps * 1000) for the frame rates tried (25 fps and 250 fps).
FpsMilliSet == {25000, 250000}

\* Stream time bases the muxer may fix when the header is written: it keeps
\* the one set from the codec context, or puts its own (1/100, 1/90000).
MuxerTimeBases(ctb) == {ctb, <<1, 100>>, <<1, 90000>>}

\* Resources acquired by the constructor, in acquisition order.
CtorSteps == <<"format_context", "file", "find_encoder", "stream",
               "codec_context", "open_codec", "parameters", "header",
               "frame", "frame_buffer", "packet">>

VARIABLES
    epc,            \* position of the encoder's caller / handler
    caller,         \* who called finalize(): "user" or "dtor"
    resources,      \* resources currently held by the encoder object
    nofile,         \* oformat->flags & AVFMT_NOFILE
    codecTb,        \* m_codec_context->time_base
    streamTb,       \* m_stream->time_base (after the header is written)
    outGeom,        \* m_frame->width, m_frame->height
    m_sws_context,  \* NullCtx or [w, h, id]
    m_finalized,
    m_pts,
    m_packet,       \* unit held by the packet buffer, 0 when blank
    encHeld,        \* pictures accepted by the encoder, no unit out yet
    encReady,       \* units waiting to be received
    encDraining,    \* the encoder accepted the NULL frame
    errLeft,        \* hard errors the capability may still report
    written,        \* units handed to av_interleaved_write_frame, in order
    trailers,       \* av_write_trailer calls
    sentinels,      \* avcodec_send_frame(NULL) calls
    accepted,       \* pictures the encoder accepted, in order
    ptsLog,         \* presentation timestamps assigned, in order
    convLog,        \* the last two sws_scale calls: [src, w, h, id]
    finalizeCalls,  \* finalize() calls made by the user
    lateEncodes,    \* encodeFrame calls entered after finalization
    thrown,         \* the last call ended by throwing
    container,      \* per decoder: the file it reads, [units, tb]
    dec,            \* per decoder: the pump, its codec and its call history
    hasPendingFrames \* the static local of getNextFrame(AVFrame**)

pumpVars == <<epc, caller, resources, nofile, codecTb, streamTb, outGeom,
              m_sws_context, m_finalized, m_pts, m_packet>>
codecVars == <<encHeld, encReady, encDraining, errLeft>>
outVars == <<written, trailers>>
histVars == <<sentinels, accepted, ptsLog, convLog, finalizeCalls,
              lateEncodes, thrown>>
encVars == <<pumpVars, codecVars, outVars, histVars>>

decVars == <<container, dec, hasPendingFrames>>

vars == <<encVars, decVars>>

\* ------------------------------------------------------------ pure helpers
Iota(n) == [i \in 1..n |-> i]

\* av_rescale_q(a, bq, cq) for a >= 0: a * bq / cq rounded to nearest, halves
\* away from zero (AV_ROUND_NEAR_INF).
av_rescale_q(a, bq, cq) ==
    LET b == bq[1] * cq[2]
        c == cq[1] * bq[2]
    IN  (a * b + (c \div 2)) \div c

\* Line 208: the presentation timestamp of the picture with counter cnt.
FramePtsSwapped(cnt, ctb, stb) == av_rescale_q(cnt, stb, ctb)
FramePts(cnt, ctb, stb) == av_rescale_q(cnt, ctb, stb)

\* Line 140: whether encodeFrame (re)creates the conversion context.
NeedsNewContextKeyed(ctx, g, out) == ctx = NullCtx \/ ctx.w # g[1] \/ ctx.h # g[2]
NeedsNewContext(ctx, g, out) == ctx = NullCtx \/ g[1] # out[1] \/ g[2] # out[2]

\* Line 178: whether finalize() does its work.
FinalizeGuardAlways(f) == TRUE
FinalizeGuard(f) == ~f

\* ------------------------------------------------- the encode capability
\* Outcomes of avcodec_send_frame(ctx, picture).
EncSendOutcomes(pic) ==
    (IF encDraining
       THEN {[ret |-> "EOF", held |-> encHeld, ready |-> encReady]}
       ELSE {[ret |-> "OK", held |-> SubSeq(h, k + 1, Len(h)),
              ready |-> encReady \o SubSeq(h, 1, k)] :
                h \in {Append(encHeld, pic)}, k \in 0..(Len(encHeld) + 1)}
            \cup
            (IF encReady # <<>>
               THEN {[ret |-> "EAGAIN", held |-> encHeld, ready |-> encReady]}
               ELSE {}))
    \cup
    (IF errLeft > 0
       THEN {[ret |-> "ERR", held |-> encHeld, ready |-> encReady]}
       ELSE {})

\* Outcomes of avcodec_send_frame(ctx, NULL).
EncFlushOutcomes ==
    (IF encDraining
       THEN {[ret |-> "EOF", drain |-> TRUE, held |-> encHeld, ready |-> encReady]}
       ELSE {[ret |-> "OK", drain |-> TRUE, held |-> <<>>,
              ready |-> encReady \o encHeld]}
            \cup
            (IF encReady # <<>>
               THEN {[ret |-> "EAGAIN", drain |-> FALSE, held |-> encHeld,
                      ready |-> encReady]}
               ELSE {}))
    \cup
    (IF errLeft > 0
       THEN {[ret |-> "ERR", drain |-> encDraining, held |-> encHeld,
              ready |-> encReady]}
       ELSE {})

\* Outcomes of avcodec_receive_packet(ctx, m_packet); the packet is
\* unreferenced first, so it is blank unless a unit is returned.
EncRecvOutcomes ==
    (IF encReady # <<>>
       THEN {[ret |-> "OK", pkt |-> Head(encReady), ready |-> Tail(encReady)]}
       ELSE IF encDraining
              THEN {[ret |-> "EOF", pkt |-> 0, ready |-> encReady]}
              ELSE {[ret |-> "EAGAIN", pkt |-> 0, ready |-> encReady]})
    \cup
    (IF errLeft > 0
       THEN {[ret |-> "ERR", pkt |-> 0, ready |-> encReady]}
       ELSE {})

ErrCost(ret) == IF ret = "ERR" THEN 1 ELSE 0

\* ------------------------------------------------------------ construction
\* Resources held once the constructor has passed the first n steps.
HeldAfter(n, nf) ==
    {CtorSteps[i] : i \in 1..n} \cap
    ({"format_context", "codec_context", "frame", "packet"} \cup
     (IF nf THEN {} ELSE {"file"}))

EncStart ==
    /\ epc = "unconstructed"
    /\ caller = "user"
    /\ resources = {}
    /\ nofile = FALSE
    /\ codecTb = <<1, 1>>
    /\ streamTb = <<1, 1>>
    /\ outGeom = <<1, 1>>
    /\ m_sws_context = NullCtx
    /\ m_finalized = FALSE
    /\ m_pts = 0
    /\ m_packet = 0
    /\ encHeld = <<>>
    /\ encReady = <<>>
    /\ encDraining = FALSE
    /\ errLeft = MaxErrors
    /\ written = <<>>
    /\ trailers = 0
    /\ sentinels = 0
    /\ accepted = <<>>
    /\ ptsLog = <<>>
    /\ convLog = <<>>
    /\ finalizeCalls = 0
    /\ lateEncodes = 0
    /\ thrown = FALSE

\* VideoEncoder::VideoEncoder: failAt = 0 is success, failAt = i means step
\* CtorSteps[i] fails and the constructor throws there.  A constructor that
\* throws runs no destructor, and the members are raw pointers.
Construct ==
    /\ epc = "unconstructed"
    /\ UNCHANGED decVars
    /\ \E g \in OutGeoms, fps \in FpsMilliSet, nf \in BOOLEAN,
          failAt \in 0..Len(CtorSteps) :
        /\ ~(nf /\ failAt = 2)
        /\ nofile' = nf
        /\ outGeom' = g
        /\ codecTb' = <<1000, fps>>
        /\ \E stb \in MuxerTimeBases(<<1000, fps>>) : streamTb' = stb
        /\ IF failAt = 0
             THEN /\ epc' = "idle"
                  /\ resources' = HeldAfter(Len(CtorSteps), nf)
                  /\ thrown' = FALSE
             ELSE /\ epc' = "ctor_failed"
                  /\ resources' = HeldAfter(failAt - 1, nf)
                  /\ thrown' = TRUE
    /\ UNCHANGED <<caller, m_sws_context, m_finalized, m_pts, m_packet>>
    /\ UNCHANGED <<codecVars, outVars>>
    /\ UNCHANGED <<sentinels, accepted, ptsLog, convLog, finalizeCalls,
                   lateEncodes>>

\* ------------------------------------------------------------ encodeFrame
LastTwo(log) == IF Len(log) <= 2 THEN log ELSE Tail(log)

\* encodeFrame(rgb_buffer, width, height), lines 137-170, up to the first
\* avcodec_send_frame of encodeFrame(AVFrame*), lines 205-208: the context
\* is (re)created when NeedsNewContext says so (the creation may fail and
\* throw), sws_scale converts with m_sws_context, the picture gets its pts
\* and m_pts is incremented.
EncodeFrame ==
    /\ epc = "idle"
    /\ UNCHANGED decVars
    /\ m_pts < MaxFrames
    /\ \E g \in Geoms, createOk \in BOOLEAN :
        LET fresh == NeedsNewContext(m_sws_context, g, outGeom)
            ctx == IF fresh
                     THEN IF createOk
                            THEN [w |-> g[1], h |-> g[2], id |-> m_pts + 1]
                            ELSE NullCtx
                     ELSE m_sws_context
        IN  /\ (createOk \/ (fresh /\ errLeft > 0))
            /\ m_sws_context' = ctx
            /\ lateEncodes' = lateEncodes + (IF m_finalized THEN 1 ELSE 0)
            /\ IF ctx = NullCtx
                 THEN /\ epc' = "idle"
                      /\ thrown' = TRUE
                      /\ errLeft' = errLeft - 1
                      /\ UNCHANGED <<m_pts, ptsLog, convLog>>
                 ELSE /\ epc' = "send"
                      /\ thrown' = FALSE
                      /\ convLog' = LastTwo(Append(convLog,
                             [src |-> g, w |-> ctx.w, h |-> ctx.h, id |-> ctx.id]))
                      /\ ptsLog' = Append(ptsLog, FramePts(m_pts, codecTb, streamTb))
                      /\ m_pts' = m_pts + 1
                      /\ UNCHANGED errLeft
    /\ UNCHANGED <<caller, resources, nofile, codecTb, streamTb, outGeom,
                   m_finalized, m_packet>>
    /\ UNCHANGED <<encHeld, encReady, encDraining, outVars>>
    /\ UNCHANGED <<sentinels, accepted, finalizeCalls>>

\* Lines 213-247: avcodec_send_frame(m_codec_context, frame) and the branch
\* taken on its result.  The picture submitted is the one numbered m_pts.
EncSend ==
    /\ epc = "send"
    /\ UNCHANGED decVars
    /\ \E o \in EncSendOutcomes(m_pts) :
        /\ encHeld' = o.held
        /\ encReady' = o.ready
        /\ errLeft' = errLeft - ErrCost(o.ret)
        /\ accepted' = IF o.ret = "OK" THEN Append(accepted, m_pts) ELSE accepted
        /\ epc' = CASE o.ret = "EAGAIN" -> "drain_retry"
                     [] o.ret = "OK" -> "drain"
                     [] OTHER -> "idle"
        /\ thrown' = (o.ret = "ERR")
    /\ UNCHANGED <<caller, resources, nofile, codecTb, streamTb, outGeom,
                   m_sws_context, m_finalized, m_pts, m_packet>>
    /\ UNCHANGED <<encDraining, outVars>>
    /\ UNCHANGED <<sentinels, ptsLog, convLog, finalizeCalls, lateEncodes>>

\* One avcodec_receive_packet of a drain loop of encodeFrame(AVFrame*):
\* lines 218-235 (onAgain = "send": back to the submit) and lines 250-267
\* (onAgain = "idle": return).  EOF returns, a hard error throws, a unit is
\* written and the packet is unreferenced.
EncDrainOn(o, onAgain) ==
        /\ encReady' = o.ready
        /\ errLeft' = errLeft - ErrCost(o.ret)
        /\ written' = IF o.ret = "OK" THEN Append(written, o.pkt) ELSE written
        /\ m_packet' = 0
        /\ epc' = CASE o.ret = "OK" -> epc
                     [] o.ret = "EAGAIN" -> onAgain
                     [] OTHER -> "idle"
        /\ thrown' = (o.ret = "ERR")
        /\ UNCHANGED <<caller, resources, nofile, codecTb, streamTb, outGeom,
                       m_sws_context, m_finalized, m_pts>>
        /\ UNCHANGED <<encHeld, encDraining, trailers>>
        /\ UNCHANGED <<sentinels, accepted, ptsLog, convLog, finalizeCalls,
                       lateEncodes>>

EncDrainStep(onAgain) == \E o \in EncRecvOutcomes : EncDrainOn(o, onAgain)

EncDrainRetry ==
    epc = "drain_retry" /\ EncDrainStep("send") /\ UNCHANGED decVars

\* Lines 219-227 when the capability answers end-of-stream to a drain of the
\* retry loop.  The interface of the capability has this answer at every
\* drain; libavcodec gives it only to a codec that is draining.
DrainRetryEndOfStream ==
    /\ epc = "drain_retry"
    /\ EncDrainOn([ret |-> "EOF", pkt |-> 0, ready |-> encReady], "send")
    /\ UNCHANGED decVars

EncDrain ==
    epc = "drain" /\ EncDrainStep("idle") /\ UNCHANGED decVars

\* ---------------------------------------------------------------- finalize
\* Lines 178-181: the m_finalized guard and avcodec_send_frame(NULL), whose
\* result the code does not look at.  who is "user" for a call of finalize()
\* and "dtor" for the call made by the destructor (line 106); skipTo is
\* where control goes when the guard is false.
FinalizeEnter(who, skipTo) ==
    /\ caller' = who
    /\ UNCHANGED decVars
    /\ IF FinalizeGuard(m_finalized)
         THEN \E o \in EncFlushOutcomes :
                /\ encHeld' = o.held
                /\ encReady' = o.ready
                /\ encDraining' = o.drain
                /\ errLeft' = errLeft - ErrCost(o.ret)
                /\ sentinels' = sentinels + 1
                /\ epc' = "fin_drain"
         ELSE /\ epc' = skipTo
              /\ UNCHANGED <<codecVars, sentinels>>
    /\ thrown' = FALSE
    /\ UNCHANGED <<resources, nofile, codecTb, streamTb, outGeom,
                   m_sws_context, m_finalized, m_pts, m_packet>>
    /\ UNCHANGED <<outVars, accepted, ptsLog, convLog, lateEncodes>>

\* finalize() called by the user.
Finalize ==
    /\ epc = "idle"
    /\ finalizeCalls < MaxFinalize
    /\ finalizeCalls' = finalizeCalls + 1
    /\ FinalizeEnter("user", "idle")

\* The flush loop with the write of the drained unit left out.
FinalizeDrainNoWrite ==
    /\ epc = "fin_drain"
    /\ UNCHANGED decVars
    /\ \E o \in EncRecvOutcomes :
        /\ encReady' = o.ready
        /\ errLeft' = errLeft - ErrCost(o.ret)
        /\ m_packet' = 0
        /\ IF o.ret \in {"EOF", "EAGAIN"}
             THEN /\ trailers' = trailers + 1
                  /\ m_finalized' = TRUE
                  /\ epc' = IF caller = "dtor" THEN "release" ELSE "idle"
             ELSE UNCHANGED <<trailers, m_finalized, epc>>
        /\ UNCHANGED written
    /\ UNCHANGED <<caller, resources, nofile, codecTb, streamTb, outGeom,
                   m_sws_context, m_pts>>
    /\ UNCHANGED <<encHeld, encDraining>>
    /\ UNCHANGED histVars

\* Lines 182-194: one avcodec_receive_packet of the flush loop.  EOF and
\* EAGAIN leave the loop: the trailer is written and m_finalized is set.
\* Every other result, a hard error included, writes m_packet and goes on.
FinalizeDrain ==
    /\ epc = "fin_drain"
    /\ UNCHANGED decVars
    /\ \E o \in EncRecvOutcomes :
        /\ encReady' = o.ready
        /\ errLeft' = errLeft - ErrCost(o.ret)
        /\ m_packet' = 0
        /\ IF o.ret \in {"EOF", "EAGAIN"}
             THEN /\ trailers' = trailers + 1
                  /\ m_finalized' = TRUE
                  /\ epc' = IF caller = "dtor" THEN "release" ELSE "idle"
                  /\ UNCHANGED written
             ELSE /\ written' = Append(written, o.pkt)
                  /\ UNCHANGED <<trailers, m_finalized, epc>>
    /\ UNCHANGED <<caller, resources, nofile, codecTb, streamTb, outGeom,
                   m_sws_context, m_pts>>
    /\ UNCHANGED <<encHeld, encDraining>>
    /\ UNCHANGED histVars

\* The flush loop of finalize() in two steps per iteration, with a fault of
\* the capability that may persist: a hard error is a possible answer of
\* every avcodec_receive_packet (errLeft stops at 0).  The log of written
\* units keeps its first MaxWritten entries.
Logged(log, x) == IF Len(log) < MaxWritten THEN Append(log, x) ELSE log

\* Lines 183-186: avcodec_receive_packet and the test of its result.
FlushReceive ==
    /\ epc = "fin_drain"
    /\ UNCHANGED decVars
    /\ \E o \in EncRecvOutcomes \cup
                {[ret |-> "ERR", pkt |-> 0, ready |-> encReady]} :
        /\ encReady' = o.ready
        /\ errLeft' = IF errLeft > 0 THEN errLeft - ErrCost(o.ret) ELSE errLeft
        /\ m_packet' = o.pkt
        /\ IF o.ret \in {"EOF", "EAGAIN"}
             THEN /\ trailers' = trailers + 1
                  /\ m_finalized' = TRUE
                  /\ epc' = IF caller = "dtor" THEN "release" ELSE "idle"
             ELSE /\ epc' = "fin_write"
                  /\ UNCHANGED <<trailers, m_finalized>>
    /\ UNCHANGED <<caller, resources, nofile, codecTb, streamTb, outGeom,
                   m_sws_context, m_pts>>
    /\ UNCHANGED <<encHeld, encDraining, written>>
    /\ UNCHANGED histVars

\* Lines 187-188: av_interleaved_write_frame(m_packet), av_packet_unref.
FlushWrite ==
    /\ epc = "fin_write"
    /\ UNCHANGED decVars
    /\ written' = Logged(written, m_packet)
    /\ m_packet' = 0
    /\ epc' = "fin_drain"
    /\ UNCHANGED <<caller, resources, nofile, codecTb, streamTb, outGeom,
                   m_sws_context, m_finalized, m_pts>>
    /\ UNCHANGED <<codecVars, trailers>>
    /\ UNCHANGED histVars

\* ------------------------------------------------------------- destructor
\* A destructor that goes straight to the release of the resources.
DestroyWithoutFinalize ==
    /\ epc = "idle"
    /\ UNCHANGED decVars
    /\ epc' = "release"
    /\ caller' = "dtor"
    /\ thrown' = FALSE
    /\ UNCHANGED <<resources, nofile, codecTb, streamTb, outGeom,
                   m_sws_context, m_finalized, m_pts, m_packet>>
    /\ UNCHANGED <<codecVars, outVars>>
    /\ UNCHANGED <<sentinels, accepted, ptsLog, convLog, finalizeCalls,
                   lateEncodes>>

\* Line 106: ~VideoEncoder calls finalize() first.
Destroy ==
    /\ epc = "idle"
    /\ UNCHANGED finalizeCalls
    /\ FinalizeEnter("dtor", "release")

\* Lines 108-125: the conversion context, the frame, the packet, the codec
\* context, the file (unless AVFMT_NOFILE) and the format context are freed.
Release ==
    /\ epc = "release"
    /\ UNCHANGED decVars
    /\ epc' = "destroyed"
    /\ resources' = {}
    /\ m_sws_context' = NullCtx
    /\ UNCHANGED <<caller, nofile, codecTb, streamTb, outGeom, m_finalized,
                   m_pts, m_packet>>
    /\ UNCHANGED <<codecVars, outVars, histVars>>

NextEnc ==
    \/ Construct
    \/ EncodeFrame
    \/ EncSend
    \/ EncDrainRetry
    \/ EncDrain
    \/ Finalize
    \/ FinalizeDrain
    \/ Destroy
    \/ Release


\* ============================================================= VideoDecoder
Decoders == {1, 2}

\* A container is [units, tb]: units[i] is "key" or "delta" for a unit of the
\* selected video stream and "other" for a unit of another stream; tb is the
\* time base of the video stream.  Video unit number j (from 0) has the
\* timestamp j, and its picture comes out with that best-effort timestamp.
UnitKinds == {"key", "delta", "other"}

IsVideo(k) == k \in {"key", "delta"}

DecTimeBases == {<<1, 25>>, <<1, 30>>}

WellFormed(u) ==
    /\ \E i \in DOMAIN u : IsVideo(u[i])
    /\ \A i \in DOMAIN u :
         (IsVideo(u[i]) /\ \A j \in 1..(i - 1) : ~IsVideo(u[j])) => u[i] = "key"

Containers ==
    {[units |-> u, tb |-> tb] :
        u \in {v \in [1..MaxUnits -> UnitKinds] : WellFormed(v)},
        tb \in DecTimeBases}

ParkedContainer == [units |-> <<"key">>, tb |-> <<1, 25>>]

VideoIdx(c) == {i \in DOMAIN c.units : IsVideo(c.units[i])}

\* The pictures of container c (each named by the index of its unit), in
\* stream order, among the units lo..hi.
RECURSIVE VideoSeq(_, _, _)
VideoSeq(c, lo, hi) ==
    IF lo > hi THEN <<>>
    ELSE IF IsVideo(c.units[lo])
           THEN <<lo>> \o VideoSeq(c, lo + 1, hi)
           ELSE VideoSeq(c, lo + 1, hi)

AllPictures(c) == VideoSeq(c, 1, Len(c.units))

UnitPts(c, i) == Cardinality({j \in VideoIdx(c) : j < i})

AV_TIME_BASE_Q == <<1, 1000000>>

\* The normalised timestamp kept in 16 bits.
getBestEffortTimestampWrapped(c, pic) ==
    av_rescale_q(UnitPts(c, pic), c.tb, AV_TIME_BASE_Q) % 65536

\* Lines 344-346.
getBestEffortTimestampInMicroseconds(c, pic) ==
    av_rescale_q(UnitPts(c, pic), c.tb, AV_TIME_BASE_Q)

\* Lines 123-129: stream duration (one tick per picture) in microseconds.
getTotalDuration(c) ==
    av_rescale_q(Cardinality(VideoIdx(c)), c.tb, AV_TIME_BASE_Q)

\* Targets tried by seekToTimestamp: each picture's timestamp, half a
\* 25 fps frame after the first and after the last picture (a target
\* between two pictures, which the conversion into ticks rounds up, and one
\* inside the duration that no picture reaches), and a target beyond the
\* duration.
SeekTargets(c) ==
    {getBestEffortTimestampInMicroseconds(c, i) : i \in VideoIdx(c)}
    \cup {getBestEffortTimestampInMicroseconds(c, i) + 20000 :
            i \in {j \in VideoIdx(c) : \/ \A k \in VideoIdx(c) : k <= j
                                       \/ \A k \in VideoIdx(c) : j <= k}}
    \cup {getTotalDuration(c) + 40000}

\* av_seek_frame(..., AVSEEK_FLAG_BACKWARD): the read position becomes the
\* last keyframe of the video stream with a timestamp at or before ticks.
JumpPos(c, ticks) ==
    LET keys == {i \in DOMAIN c.units :
                    c.units[i] = "key" /\ UnitPts(c, i) <= ticks}
    IN  CHOOSE i \in keys : \A j \in keys : j <= i

\* Line 292: whether the forward scan of seekToTimestamp stops.
SeekReachedAtOnce(cur, target) == TRUE
SeekReached(cur, target) == cur >= target

\* Line 187: whether the unit just read (number pkt of c) is submitted.
BelongsToAnyStream(c, pkt) == TRUE
BelongsToVideoStream(c, pkt) == IsVideo(c.units[pkt])

\* The units handed to avcodec_send_packet since the last jump, in order;
\* the NULL packet is logged as 0, once however often it is repeated.
SentNull(log) ==
    IF log # <<>> /\ log[Len(log)] = 0 THEN log ELSE Append(log, 0)

\* Line 211: what getNextFrame(AVFrame**) returns when the drain reports
\* end of stream.
EndOfStreamResultTrue == TRUE
EndOfStreamResult == FALSE

Reported(e) == IF e = "no" THEN "reported" ELSE e

\* Line 222: the value hasPendingFrames gets when a picture is returned.
PendingAfterPictureCleared == FALSE
PendingAfterPicture == TRUE

\* What is remembered of the decoder as it was when seekToTimestamp was
\* called: whether a picture had been returned and the drain was unfinished
\* (hasPendingFrames set), whether the drain had reported end of stream,
\* and whether the codec was holding pictures.
NotObserved == [pending |-> FALSE, eos |-> FALSE, buffered |-> FALSE]

SeekFrom(r, pending) ==
    [pending |-> pending, eos |-> r.eos # "no",
     buffered |-> r.held \o r.ready # <<>>]

DecStart ==
    [pc |-> "idle", mode |-> "next", pos |-> 1,
     held |-> <<>>, ready |-> <<>>, draining |-> FALSE,
     m_packet |-> 0, m_frame |-> 0,
     target |-> 0, jump |-> 1, errLeft |-> MaxDecErrors,
     seeks |-> 0, delivered |-> <<>>, lastRet |-> "none", lastTs |-> 0,
     seekRet |-> "none", seekWhy |-> "none", probe |-> "none",
     res |-> {"format_context", "codec_context", "packet", "frame"},
     failedAt |-> 0, sent |-> <<>>, eos |-> "no",
     build |-> "unref", unreleased |-> {}, seekFrom |-> NotObserved]

\* ---------------------------------------------- the decode capability
\* What av_read_frame does with the packet it is given before it fills it:
\* "unref" releases the payload the packet still refers to
\* (av_packet_unref), "init" blanks the fields and releases nothing
\* (av_init_packet).  Which one depends on the libavformat the program is
\* built with; no other step of the decoder depends on it.
ReadBuilds == {"unref", "init"}

\* Line 178: the payloads no packet refers to any more and nobody released,
\* after an av_read_frame on the packet of r.  getNextFrame never calls
\* av_packet_unref itself.
Unreleased(r) ==
    IF r.m_packet # 0 /\ r.build = "init"
      THEN r.unreleased \cup {r.m_packet}
      ELSE r.unreleased

\* Outcomes of av_read_frame(m_format_context, m_packet).
DecReadOutcomes(c, r) ==
    (IF r.pos <= Len(c.units)
       THEN {[ret |-> "OK", pkt |-> r.pos, pos |-> r.pos + 1]}
       ELSE {[ret |-> "EOF", pkt |-> 0, pos |-> r.pos]})
    \cup
    (IF r.errLeft > 0
       THEN {[ret |-> "ERR", pkt |-> 0, pos |-> r.pos]}
       ELSE {})

\* Outcomes of avcodec_send_packet(m_codec_context, m_packet).
DecSendOutcomes(r, unit) ==
    (IF r.draining
       THEN {[ret |-> "EOF", held |-> r.held, ready |-> r.ready]}
       ELSE {[ret |-> "OK", held |-> SubSeq(h, k + 1, Len(h)),
              ready |-> r.ready \o SubSeq(h, 1, k)] :
                h \in {Append(r.held, unit)}, k \in 0..(Len(r.held) + 1)}
            \cup
            (IF r.ready # <<>>
               THEN {[ret |-> "EAGAIN", held |-> r.held, ready |-> r.ready]}
               ELSE {}))
    \cup
    (IF r.errLeft > 0
       THEN {[ret |-> "ERR", held |-> r.held, ready |-> r.ready]}
       ELSE {})

\* Outcomes of avcodec_send_packet(m_codec_context, nullptr).
DecFlushOutcomes(r) ==
    (IF r.draining
       THEN {[ret |-> "EOF", drain |-> TRUE, held |-> r.held, ready |-> r.ready]}
       ELSE {[ret |-> "OK", drain |-> TRUE, held |-> <<>>,
              ready |-> r.ready \o r.held]}
            \cup
            (IF r.ready # <<>>
               THEN {[ret |-> "EAGAIN", drain |-> FALSE, held |-> r.held,
                      ready |-> r.ready]}
               ELSE {}))
    \cup
    (IF r.errLeft > 0
       THEN {[ret |-> "ERR", drain |-> r.draining, held |-> r.held,
              ready |-> r.ready]}
       ELSE {})

\* Outcomes of avcodec_receive_frame(m_codec_context, m_frame).
DecRecvOutcomes(r) ==
    (IF r.ready # <<>>
       THEN {[ret |-> "OK", pic |-> Head(r.ready), ready |-> Tail(r.ready)]}
       ELSE IF r.draining
              THEN {[ret |-> "EOF", pic |-> 0, ready |-> r.ready]}
              ELSE {[ret |-> "EAGAIN", pic |-> 0, ready |-> r.ready]})
    \cup
    (IF r.errLeft > 0
       THEN {[ret |-> "ERR", pic |-> 0, ready |-> r.ready]}
       ELSE {})

\* ------------------------------------------------------ the public calls
\* What the caller of getNextFrame(AVFrame**) does with its result ok, the
\* decoder being r after the call.
\*  mode "next", lines 241-259: a picture is converted (the conversion
\*    throws when no scaling context can be created, line 320), its
\*    timestamp is normalised and true is returned; otherwise false.
\*  mode "seek", lines 290-300: the scan stops with true at the first
\*    picture for which SeekReached holds, goes on to the next
\*    getNextFrame call otherwise, and stops with false when none came.
Returns(c, r, ok) ==
    IF r.mode = "next"
      THEN LET stage == IF r.probe = "pending" THEN "next" ELSE r.probe
           IN  IF ok
                 THEN {[r EXCEPT !.pc = "idle", !.lastRet = "true",
                                 !.delivered = Append(@, r.m_frame),
                                 !.lastTs = getBestEffortTimestampInMicroseconds(c, r.m_frame),
                                 !.probe = stage]}
                      \cup
                      (IF r.errLeft > 0
                         THEN {[r EXCEPT !.pc = "idle", !.lastRet = "throw",
                                         !.errLeft = @ - 1, !.probe = stage]}
                         ELSE {})
                 ELSE {[r EXCEPT !.pc = "idle", !.lastRet = "false",
                                 !.probe = stage]}
      ELSE IF ok
             THEN IF SeekReached(getBestEffortTimestampInMicroseconds(c, r.m_frame),
                                 r.target)
                    THEN {[r EXCEPT !.pc = "idle", !.seekRet = "true",
                                    !.seekWhy = "reached", !.probe = "seeked"]}
                    ELSE {[r EXCEPT !.pc = "top"]}
             ELSE {[r EXCEPT !.pc = "idle", !.seekRet = "false",
                             !.seekWhy = "no_frame", !.probe = "seeked"]}

DecStep(d, n, flag) ==
    /\ dec' = [dec EXCEPT ![d] = n]
    /\ hasPendingFrames' = flag
    /\ UNCHANGED <<container, encVars>>

\* Whether the drain has reported end of stream since the last seek ("no",
\* "reported"), and whether getNextFrame has been called since then.
CalledAgain(e) == IF e = "no" THEN "no" ELSE "called_again"

\* getNextFrame(rgb_buffer, pts), line 238: the call is made.  (The record
\* of the last seek is kept for the first call after it and dropped at the
\* second.)
GetNextFrame(d) ==
    /\ dec[d].pc = "idle"
    /\ LET r == dec[d]
       IN  IF r.probe = "seeked"
             THEN DecStep(d, [r EXCEPT !.pc = "top", !.mode = "next",
                                       !.eos = CalledAgain(@),
                                       !.probe = "pending"],
                          hasPendingFrames)
             ELSE DecStep(d, [r EXCEPT !.pc = "top", !.mode = "next",
                                       !.eos = CalledAgain(@),
                                       !.probe = "none", !.target = 0,
                                       !.seekFrom = NotObserved,
                                       !.seekRet = "none", !.seekWhy = "none"],
                          hasPendingFrames)

\* Line 279: avcodec_flush_buffers drops what the codec holds and takes it
\* out of draining.
avcodec_flush_buffers_skipped(r) == r
avcodec_flush_buffers(r) ==
    [r EXCEPT !.held = <<>>, !.ready = <<>>, !.draining = FALSE]

\* Line 282: the position av_seek_frame is asked for, from the target
\* converted into the stream time base at lines 272-276.
SeekRequestLate(c, t) == av_rescale_q(t, AV_TIME_BASE_Q, c.tb) + 1
SeekRequest(c, t) == av_rescale_q(t, AV_TIME_BASE_Q, c.tb)

\* seekToTimestamp, lines 269-286: the target is converted into the stream
\* time base, the codec is flushed, then the container jumps; a failed jump
\* returns false.  from is what is remembered of the decoder as it was.
SeekCall(d, from) ==
    /\ dec[d].pc = "idle"
    /\ dec[d].seeks < MaxSeeks
    /\ \E t \in SeekTargets(container[d]), ok \in BOOLEAN :
        LET r == dec[d]
            ticks == SeekRequest(container[d], t)
            f == [avcodec_flush_buffers(r) EXCEPT
                           !.seeks = @ + 1, !.target = t, !.mode = "seek",
                           !.delivered = <<>>, !.lastRet = "none", !.lastTs = 0,
                           !.eos = "no", !.seekFrom = from]
        IN  /\ (ok \/ r.errLeft > 0)
            /\ IF ok
                 THEN DecStep(d, [f EXCEPT !.pos = JumpPos(container[d], ticks),
                                           !.jump = JumpPos(container[d], ticks),
                                           !.pc = "top", !.probe = "none",
                                           !.sent = <<>>,
                                           !.seekRet = "none", !.seekWhy = "none"],
                              hasPendingFrames)
                 ELSE DecStep(d, [f EXCEPT !.errLeft = @ - 1, !.pc = "idle",
                                           !.seekRet = "false",
                                           !.seekWhy = "seek_failed",
                                           !.probe = "seeked"],
                              hasPendingFrames)

SeekToTimestamp(d) ==
    /\ dec[d].pc = "idle"
    /\ SeekCall(d, NotObserved)

\* The same call, remembering how the decoder was when it was made.
SeekToTimestampObserved(d) ==
    /\ dec[d].pc = "idle"
    /\ SeekCall(d, SeekFrom(dec[d], hasPendingFrames))

\* getNextFrame(AVFrame**), lines 174-197: with no pending frames a unit is
\* read; at the end of the file the NULL packet is sent (its result is not
\* looked at), a read error returns false, a unit of the video stream is
\* sent (any negative result returns false), any other unit is skipped.
DecTop(d) ==
    /\ dec[d].pc = "top"
    /\ LET r == dec[d]
           c == container[d]
       IN  IF hasPendingFrames
             THEN DecStep(d, [r EXCEPT !.pc = "recv"], hasPendingFrames)
             ELSE \E rd \in DecReadOutcomes(c, r) :
                    LET a == [r EXCEPT !.pos = rd.pos, !.m_packet = rd.pkt,
                                       !.unreleased = Unreleased(r)]
                    IN  CASE rd.ret = "EOF" ->
                               \E fl \in DecFlushOutcomes(a) :
                                 DecStep(d, [a EXCEPT !.held = fl.held,
                                                !.ready = fl.ready,
                                                !.draining = fl.drain,
                                                !.sent = SentNull(@),
                                                !.errLeft = @ - ErrCost(fl.ret),
                                                !.pc = "recv"],
                                         hasPendingFrames)
                          [] rd.ret = "ERR" ->
                               \E n \in Returns(c, [a EXCEPT !.errLeft = @ - 1], FALSE) :
                                 DecStep(d, n, hasPendingFrames)
                          [] rd.ret = "OK" /\ BelongsToVideoStream(c, rd.pkt) ->
                               \E sn \in DecSendOutcomes(a, rd.pkt) :
                                 LET b == [a EXCEPT !.held = sn.held,
                                                    !.ready = sn.ready,
                                                    !.sent = Append(@, rd.pkt),
                                                    !.errLeft = @ - ErrCost(sn.ret)]
                                 IN  IF sn.ret = "OK"
                                       THEN DecStep(d, [b EXCEPT !.pc = "recv"],
                                                    hasPendingFrames)
                                       ELSE \E n \in Returns(c, b, FALSE) :
                                              DecStep(d, n, hasPendingFrames)
                          [] OTHER ->
                               DecStep(d, [a EXCEPT !.pc = "recv"], hasPendingFrames)

\* getNextFrame(AVFrame**), lines 200-226: one avcodec_receive_frame.
DecRecv(d) ==
    /\ dec[d].pc = "recv"
    /\ LET r == dec[d]
           c == container[d]
       IN  \E o \in DecRecvOutcomes(r) :
             LET a == [r EXCEPT !.ready = o.ready, !.errLeft = @ - ErrCost(o.ret)]
             IN  CASE o.ret = "EAGAIN" ->
                        DecStep(d, [a EXCEPT !.pc = "top"], FALSE)
                   [] o.ret = "EOF" ->
                        \E n \in Returns(c, [a EXCEPT !.eos = Reported(@)],
                                         EndOfStreamResult) :
                          DecStep(d, n, FALSE)
                   [] o.ret = "ERR" ->
                        \E n \in Returns(c, a, FALSE) :
                          DecStep(d, n, hasPendingFrames)
                   [] OTHER ->
                        \E n \in Returns(c, [a EXCEPT !.m_frame = o.pic], TRUE) :
                          DecStep(d, n, PendingAfterPicture)

\* -------------------------------------------- construction and teardown
\* The steps of VideoDecoder::VideoDecoder, lines 27-90, in order.
DecCtorSteps == <<"open_input", "stream_info", "video_stream", "find_decoder",
                  "codec_context", "parameters", "open_codec", "packet",
                  "frame">>

\* What a step that succeeds acquires: avformat_open_input (line 27),
\* avcodec_alloc_context3 (line 57), av_packet_alloc (line 76) and
\* av_frame_alloc (line 84) acquire; the other steps acquire nothing.
DecAcquires(step) ==
    CASE step = "open_input" -> {"format_context"}
      [] step = "codec_context" -> {"codec_context"}
      [] step = "packet" -> {"packet"}
      [] step = "frame" -> {"frame"}
      [] OTHER -> {}

\* Resources held once the first n steps have succeeded.
DecHeldAfter(n) == UNION {DecAcquires(DecCtorSteps[i]) : i \in 1..n}

\* What the failure branch of step number i frees before it throws, with the
\* release of the packet left out of the last branch.
DecReleasedOnFailureNoPacket(i) ==
    CASE i = 1 -> {}
      [] i \in 2..5 -> {"format_context"}
      [] OTHER -> {"codec_context", "format_context"}

\* What the failure branch of step number i frees before it throws: nothing
\* at line 28, the format context at lines 33, 45, 53 and 59, the codec
\* context and the format context at lines 64-65, 70-71 and 78-79, and
\* these two and the packet at lines 86-88.
DecReleasedOnFailure(i) ==
    CASE i = 1 -> {}
      [] i \in 2..5 -> {"format_context"}
      [] i \in 6..8 -> {"codec_context", "format_context"}
      [] OTHER -> {"codec_context", "format_context", "packet"}

\* A decoder object before its constructor has run.
DecNew == [DecStart EXCEPT !.pc = "new", !.res = {}]

\* VideoDecoder::VideoDecoder, lines 23-91.  failAt = 0 is success; failAt = i
\* means step DecCtorSteps[i] fails, its branch frees what it frees and the
\* constructor throws.  The search for a video stream (lines 38-47) fails
\* exactly when the file has none; the other steps fail as the capability
\* decides.
DecConstruct(d) ==
    /\ dec[d].pc = "new"
    /\ \E failAt \in 0..Len(DecCtorSteps) :
        /\ (failAt = 3 => VideoIdx(container[d]) = {})
        /\ (VideoIdx(container[d]) = {} => failAt \in 1..3)
        /\ IF failAt = 0
             THEN DecStep(d, DecStart, hasPendingFrames)
             ELSE DecStep(d, [DecNew EXCEPT
                                !.pc = "ctor_failed",
                                !.failedAt = failAt,
                                !.res = DecHeldAfter(failAt - 1)
                                           \ DecReleasedOnFailure(failAt)],
                          hasPendingFrames)

\* VideoDecoder::~VideoDecoder, lines 97-102.
DecDestroy(d) ==
    /\ dec[d].pc = "idle"
    /\ DecStep(d, [dec[d] EXCEPT !.pc = "destroyed", !.res = {}],
               hasPendingFrames)

\* ---------------------------------------------------------- specifications
\* One encoder is constructed, used and destroyed; no decoder is used.
InitEnc ==
    /\ EncStart
    /\ container = [d \in Decoders |-> ParkedContainer]
    /\ dec = [d \in Decoders |-> DecStart]
    /\ hasPendingFrames = FALSE

SpecEnc == InitEnc /\ [][NextEnc]_vars

\* One decoder (number 1) is opened on some container and used; the static
\* hasPendingFrames starts false (line 172).
InitDec ==
    /\ EncStart
    /\ \E c \in Containers :
         container = [d \in Decoders |-> IF d = 1 THEN c ELSE ParkedContainer]
    /\ dec = [d \in Decoders |-> DecStart]
    /\ hasPendingFrames = FALSE

NextDec ==
    \E d \in {1} :
        \/ GetNextFrame(d)
        \/ SeekToTimestamp(d)
        \/ DecTop(d)
        \/ DecRecv(d)

SpecDec == InitDec /\ [][NextDec]_vars

\* The same decoder built against either libavformat.
InitUnits ==
    /\ EncStart
    /\ \E c \in Containers :
         /\ c.tb = ParkedContainer.tb
         /\ container = [d \in Decoders |-> IF d = 1 THEN c ELSE ParkedContainer]
    /\ \E b \in ReadBuilds :
         dec = [d \in Decoders |->
                  IF d = 1 THEN [DecStart EXCEPT !.build = b] ELSE DecStart]
    /\ hasPendingFrames = FALSE

SpecUnits == InitUnits /\ [][NextDec]_vars

\* One decoder is used as in SpecDec; what the decoder was like when a seek
\* was called is remembered until the second getNextFrame after it.
NextSeek ==
    \E d \in {1} :
        \/ GetNextFrame(d)
        \/ SeekToTimestampObserved(d)
        \/ DecTop(d)
        \/ DecRecv(d)

\* The files read have the time base 1/30, whose ticks are not a whole
\* number of microseconds.
InitSeek ==
    /\ EncStart
    /\ \E c \in Containers :
         /\ c.tb = <<1, 30>>
         /\ container = [d \in Decoders |-> IF d = 1 THEN c ELSE ParkedContainer]
    /\ dec = [d \in Decoders |-> DecStart]
    /\ hasPendingFrames = FALSE

SpecSeek == InitSeek /\ [][NextSeek]_vars

\* Decoder objects are constructed, each on its own file (number 1 on any
\* file, with or without a video stream), and destroyed.
CtorContainers ==
    {[units |-> u, tb |-> tb] : u \in [1..MaxUnits -> UnitKinds],
                                tb \in DecTimeBases}

InitCtor ==
    /\ EncStart
    /\ \E c \in CtorContainers :
         container = [d \in Decoders |-> IF d = 1 THEN c ELSE ParkedContainer]
    /\ dec = [d \in Decoders |-> DecNew]
    /\ hasPendingFrames = FALSE

NextCtor ==
    \E d \in Decoders :
        \/ DecConstruct(d)
        \/ DecDestroy(d)

SpecCtor == InitCtor /\ [][NextCtor]_vars

\* A constructed encoder is used and destroyed; the flush loop of finalize()
\* is taken one capability call at a time and the capability may answer as
\* its interface allows.  The pump is single-threaded, synchronous code: a
\* call that can take its next step takes it.
InitIface ==
    /\ epc = "idle"
    /\ caller = "user"
    /\ resources = HeldAfter(Len(CtorSteps), FALSE)
    /\ nofile = FALSE
    /\ \E fps \in FpsMilliSet : codecTb = <<1000, fps>> /\ streamTb = <<1000, fps>>
    /\ \E g \in OutGeoms : outGeom = g
    /\ m_sws_context = NullCtx
    /\ m_finalized = FALSE
    /\ m_pts = 0
    /\ m_packet = 0
    /\ encHeld = <<>>
    /\ encReady = <<>>
    /\ encDraining = FALSE
    /\ errLeft = MaxErrors
    /\ written = <<>>
    /\ trailers = 0
    /\ sentinels = 0
    /\ accepted = <<>>
    /\ ptsLog = <<>>
    /\ convLog = <<>>
    /\ finalizeCalls = 0
    /\ lateEncodes = 0
    /\ thrown = FALSE
    /\ container = [d \in Decoders |-> ParkedContainer]
    /\ dec = [d \in Decoders |-> DecStart]
    /\ hasPendingFrames = FALSE

NextIface ==
    \/ EncodeFrame
    \/ EncSend
    \/ EncDrainRetry
    \/ DrainRetryEndOfStream
    \/ EncDrain
    \/ Finalize
    \/ FlushReceive
    \/ FlushWrite
    \/ Destroy
    \/ Release

SpecIface == InitIface /\ [][NextIface]_vars /\ WF_vars(NextIface)

\* Two decoders, each opened on its own file, are used by one thread in any
\* interleaving of their calls (a call runs to its end before the next one
\* starts); both run the same getNextFrame(AVFrame**), whose static local
\* hasPendingFrames exists once in the program.
InitPair ==
    /\ EncStart
    /\ \E c \in Containers :
         /\ c.tb = ParkedContainer.tb
         /\ container = [d \in Decoders |-> IF d = 1 THEN c ELSE ParkedContainer]
    /\ dec = [d \in Decoders |-> DecStart]
    /\ hasPendingFrames = FALSE

\* Line 238 as called by the one thread: no call on another decoder is
\* under way.
CallGetNextFrame(d) ==
    /\ \A e \in Decoders \ {d} : dec[e].pc = "idle"
    /\ GetNextFrame(d)

NextPair ==
    \E d \in Decoders :
        \/ CallGetNextFrame(d)
        \/ DecTop(d)
        \/ DecRecv(d)

SpecPair == InitPair /\ [][NextPair]_vars

\* ------------------------------------------------------------------ claims
NoHardError == errLeft = MaxErrors

AllResources == HeldAfter(Len(CtorSteps), nofile)

IsPrefix(s, t) == Len(s) <= Len(t) /\ s = SubSeq(t, 1, Len(s))

StrictlyIncreasing(log) ==
    \A i, j \in DOMAIN log : i < j => log[i] < log[j]

NonDecreasing(log) ==
    \A i, j \in DOMAIN log : i < j => log[i] <= log[j]

\* C1: finalize() is idempotent.  Once m_finalized is set, a further call
\* of finalize() by the user submits no sentinel, drains nothing, writes no
\* unit and no trailer and leaves the pump and the capability as they were;
\* and no later step, the teardown included, writes another trailer or
\* submits another sentinel.
C1_FinalizeIdempotent ==
    [][m_finalized =>
         /\ trailers' = trailers
         /\ sentinels' = sentinels
         /\ (finalizeCalls' # finalizeCalls =>
                /\ UNCHANGED <<written, codecVars, m_packet, m_pts>>
                /\ UNCHANGED <<m_sws_context, resources, epc, m_finalized>>)
         /\ (epc' = "release" => UNCHANGED <<written, codecVars>>)]_vars

C1_Witness ==
    /\ epc = "destroyed"
    /\ finalizeCalls = 2
    /\ trailers = 1
    /\ sentinels = 1
    /\ written # <<>>

\* C2: over the lifetime of a constructed pump the sentinel is submitted and
\* the trailer written at most once, exactly once by the time the teardown
\* releases anything, also when the user never called finalize(); until the
\* release every resource is still held.
C2_FlushAndTrailerOnce ==
    epc \notin {"unconstructed", "ctor_failed"} =>
        /\ trailers <= 1
        /\ sentinels <= 1
        /\ (m_finalized <=> trailers = 1)
        /\ (epc \in {"release", "destroyed"} =>
              trailers = 1 /\ sentinels = 1)
        /\ (epc # "destroyed" => resources = AllResources)

C2_Witness ==
    /\ epc = "destroyed"
    /\ finalizeCalls = 0
    /\ m_pts = MaxFrames
    /\ trailers = 1
    /\ sentinels = 1

\* C3 (encode side of the round trip): while the capability reports no hard
\* error and every encodeFrame call precedes finalize(), each picture
\* passed to encodeFrame is accepted by the capability exactly once, units
\* are written in production order and none after the trailer, and once
\* finalize() has completed the container holds the unit of every picture.
C3_RoundTripEncodeSide ==
    (NoHardError /\ lateEncodes = 0) =>
        /\ (epc \notin {"send", "drain_retry"} => accepted = Iota(m_pts))
        /\ (epc \in {"send", "drain_retry"} => accepted = Iota(m_pts - 1))
        /\ IsPrefix(written, accepted)
        /\ (~m_finalized => trailers = 0)
        /\ (m_finalized => written = Iota(m_pts))

C3_Witness ==
    /\ NoHardError
    /\ lateEncodes = 0
    /\ m_finalized
    /\ m_pts = MaxFrames
    /\ written = Iota(MaxFrames)

\* The stream time base is not coarser than the encoder time base: one
\* stream tick lasts at most one encoder tick.
StreamNotCoarser == streamTb[1] * codecTb[2] <= codecTb[1] * streamTb[2]

\* v is a * bq / cq rounded to the nearest integer, halves upward.
IsRescaled(v, a, bq, cq) ==
    LET b == bq[1] * cq[2]
        c == cq[1] * bq[2]
    IN  2 * a * b - c < 2 * v * c /\ 2 * v * c <= 2 * a * b + c

\* C7 as stated: the assigned presentation timestamps are strictly
\* increasing for every pair of encoder and stream time base.
C7_StrictForEveryTimeBase == StrictlyIncreasing(ptsLog)

\* C7 amended: the k-th submitted picture gets the frame counter k-1
\* rescaled from the encoder time base into the stream time base; the
\* timestamps never decrease, and they are strictly increasing whenever
\* the stream time base is not coarser than the encoder time base.
C7_RescaledCounter ==
    /\ \A k \in DOMAIN ptsLog : IsRescaled(ptsLog[k], k - 1, codecTb, streamTb)
    /\ NonDecreasing(ptsLog)
    /\ (StreamNotCoarser => StrictlyIncreasing(ptsLog))

C7_Witness ==
    /\ Len(ptsLog) = MaxFrames
    /\ StreamNotCoarser
    /\ streamTb # codecTb
    /\ ptsLog[2] > 1

\* C8: every conversion uses a context created for the input geometry of
\* that call.
C8_ContextMatchesInput ==
    \A i \in DOMAIN convLog :
        convLog[i].w = convLog[i].src[1] /\ convLog[i].h = convLog[i].src[2]

\* C9: two consecutive encodeFrame calls with the same input geometry
\* convert with the same context.
C9_ContextReused ==
    (NoHardError /\ Len(convLog) = 2 /\ convLog[1].src = convLog[2].src) =>
        convLog[1].id = convLog[2].id

\* C10: when the constructor has thrown, the object holds no resource (no
\* open file or sink in particular).
C10_FailedCtorHoldsNothing ==
    epc = "ctor_failed" => resources = {}

\* No hard error was reported to decoder 1 so far.
NoDecError == dec[1].errLeft = MaxDecErrors

\* C4: with no seek and no hard error, the pictures returned by the
\* getNextFrame calls of a decoder, followed by the pictures its codec still
\* holds, are exactly the pictures of the video units read so far, in
\* stream order (none dropped, none twice, whatever the codec held back or
\* released together); a call returns false only when every picture of the
\* container has been returned.
C4_EveryPictureOnceInOrder ==
    LET r == dec[1]
        c == container[1]
    IN  (r.seeks = 0 /\ NoDecError) =>
          /\ r.delivered \o r.ready \o r.held = VideoSeq(c, 1, r.pos - 1)
          /\ (r.lastRet = "false" => r.delivered = AllPictures(c))
          /\ (r.lastRet = "true" /\ r.pc = "idle" =>
                r.m_frame = r.delivered[Len(r.delivered)])

C4_Witness ==
    LET r == dec[1]
        c == container[1]
    IN  /\ r.seeks = 0
        /\ NoDecError
        /\ r.lastRet = "false"
        /\ r.delivered = AllPictures(c)
        /\ Len(r.delivered) = MaxUnits

\* C5: for every target t in [0, duration), seekToTimestamp(t) followed by
\* getNextFrame returns a picture with normalised timestamp >= t.
C5_SeekThenNextAtOrAfterTarget ==
    LET r == dec[1]
        c == container[1]
    IN  (r.probe = "next" /\ NoDecError /\ r.target < getTotalDuration(c)) =>
          (r.lastRet = "true" /\ r.lastTs >= r.target)

\* C6: when seekToTimestamp has returned, it returned true only if the
\* picture it stopped at was decoded from a unit at or after the keyframe
\* jump and has a normalised timestamp >= target; it returned false when
\* the container seek failed, when no such picture came before the decoder
\* stopped delivering, and for every target at or beyond the duration.
C6_SeekResult ==
    LET r == dec[1]
        c == container[1]
    IN  (r.pc = "idle" /\ r.probe = "seeked") =>
          /\ r.seekRet \in {"true", "false"}
          /\ (r.seekRet = "true" =>
                /\ r.seekWhy = "reached"
                /\ r.m_frame >= r.jump
                /\ IsVideo(c.units[r.m_frame])
                /\ getBestEffortTimestampInMicroseconds(c, r.m_frame) >= r.target)
          /\ (r.seekWhy \in {"seek_failed", "no_frame"} => r.seekRet = "false")
          /\ (r.target >= getTotalDuration(c) => r.seekRet = "false")

C6_Witness ==
    LET r == dec[1]
    IN  /\ r.pc = "idle"
        /\ r.probe = "seeked"
        /\ r.seekRet = "true"
        /\ r.target > 0
        /\ r.m_frame > r.jump

\* C11: when the constructor of a decoder fails at any of its nine steps,
\* everything the earlier steps acquired has been released by the time the
\* error leaves the constructor.
C11_FailedDecCtorHoldsNothing ==
    \A d \in Decoders :
        dec[d].pc = "ctor_failed" =>
            /\ dec[d].failedAt \in 1..Len(DecCtorSteps)
            /\ DecHeldAfter(dec[d].failedAt - 1) \subseteq
                   DecReleasedOnFailure(dec[d].failedAt)
            /\ dec[d].res = {}

C11_Witness ==
    /\ dec[1].pc = "ctor_failed"
    /\ dec[1].failedAt = Len(DecCtorSteps)
    /\ dec[2].pc = "ctor_failed"
    /\ dec[2].failedAt = 6

\* C12: every failure of getNextFrame(rgb_buffer, pts) is reported by the
\* result false and none by throwing: whenever such a call has ended, it
\* ended with true or with false.
C12_FailuresReturnFalse ==
    \A d \in Decoders :
        (dec[d].pc = "idle" /\ dec[d].mode = "next") =>
            dec[d].lastRet \in {"none", "true", "false"}

\* C13: a failure inside finalize() makes it throw.  A step of finalize()
\* in which the capability reports a hard error (the submit of the
\* sentinel or a drain of the flush loop) ends the call by throwing,
\* writes no unit and leaves the flush loop.
C13_FinalizeFailureThrows ==
    [][(errLeft' < errLeft /\ (sentinels' # sentinels \/ epc = "fin_drain")) =>
          /\ thrown'
          /\ written' = written
          /\ epc' # "fin_drain"]_vars

\* C14: every call of the encode pump that has started comes to an end (it
\* returns or throws), whatever the capability answers; a hard drain error
\* that persists does not keep a loop running.
C14_EveryCallTerminates ==
    (epc \in {"send", "drain_retry", "drain", "fin_drain", "fin_write"})
        ~> (epc \in {"idle", "release", "destroyed"})

\* C16: back-pressure in the internal submit.  Once the submit of a picture
\* has signalled not-ready, every drained unit is written and the drain loop
\* is left only to submit the same picture again, or by throwing on a hard
\* error: the retry follows a drain that signals not-ready and also one that
\* signals end-of-stream.
C16_RetryAfterDrain ==
    [][epc = "drain_retry" =>
          /\ (Len(encReady') < Len(encReady) =>
                 /\ written' = Append(written, Head(encReady))
                 /\ epc' = "drain_retry")
          /\ (epc' # "drain_retry" =>
                 \/ (epc' = "send" /\ m_pts' = m_pts /\ ~thrown')
                 \/ (thrown' /\ errLeft' < errLeft))]_vars

\* Stream time bases for which the normalisation is compared tick by tick:
\* those of the files read, 1/90000, one finer than a microsecond and one
\* with a numerator other than 1.
RescaleTimeBases == DecTimeBases \cup {<<1, 90000>>, <<1, 3000000>>, <<2, 25>>}

\* C15: decoding from the start with no seek yields normalised timestamps
\* that never decrease: the value written to pts is the rescaled
\* best-effort timestamp of the picture returned, and the rescale into
\* microseconds keeps the order of the ticks for every stream time base
\* (this comparison does not depend on the state and is made before the
\* first call).
C15_TimestampsNonDecreasing ==
    LET r == dec[1]
        c == container[1]
        ts == [i \in DOMAIN r.delivered |->
                 getBestEffortTimestampInMicroseconds(c, r.delivered[i])]
    IN  /\ r.seeks = 0 =>
              /\ NonDecreasing(ts)
              /\ (r.delivered # <<>> => r.lastTs = ts[Len(ts)])
        /\ (r.pos = 1 /\ r.seeks = 0 /\ r.pc = "idle") =>
              \A tb \in RescaleTimeBases : \A a \in 0..(MaxTicks - 1) :
                av_rescale_q(a, tb, AV_TIME_BASE_Q)
                   <= av_rescale_q(a + 1, tb, AV_TIME_BASE_Q)

C15_Witness ==
    /\ dec[1].seeks = 0
    /\ dec[1].pc = "idle"
    /\ dec[1].lastRet = "true"
    /\ Len(dec[1].delivered) = MaxUnits
    /\ dec[1].lastTs > 0

\* The log of submitted units without its closing NULL packet.
SentUnits(log) ==
    IF log # <<>> /\ log[Len(log)] = 0 THEN SubSeq(log, 1, Len(log) - 1) ELSE log

\* C17: a unit of another stream is never submitted to the decode
\* capability.  The units submitted since the decoder was opened (or since
\* the last jump) are exactly the units of the video stream read so far, in
\* container order, and the NULL packet follows them only at end of input.
C17_OnlyVideoUnitsSubmitted ==
    LET r == dec[1]
        c == container[1]
        u == SentUnits(r.sent)
    IN  /\ u = VideoSeq(c, r.jump, r.pos - 1)
        /\ \A i \in DOMAIN u : u[i] # 0 /\ c.units[u[i]] # "other"
        /\ (r.sent # u => r.pos = Len(c.units) + 1)
        /\ (r.draining => r.sent # u)

C17_Witness ==
    /\ dec[1].seeks = 0
    /\ container[1].units[2] = "other"
    /\ Len(SentUnits(dec[1].sent)) = MaxUnits - 1
    /\ dec[1].sent # SentUnits(dec[1].sent)
    /\ dec[1].lastRet = "false"

\* C18: drain before read.  getNextFrame reads and submits a unit only when
\* the most recent drain signalled need-more-input (or nothing has been
\* submitted yet): at a step that submits a unit, no picture of a unit
\* submitted earlier is still waiting to be drained.
C18_DrainBeforeRead ==
    [][\A d \in {1} :
         (/\ Len(dec'[d].sent) > Len(dec[d].sent)
          /\ dec'[d].sent[Len(dec'[d].sent)] # 0)
            => dec[d].ready = <<>>]_vars

\* C19: the unfinished-draining state belongs to one pump.  Two decoders
\* whose calls are interleaved each deliver what they deliver when run
\* alone: with no seek and no hard error, every picture of the file once, in
\* stream order, and false only after the last one.
C19_InstancesIndependent ==
    \A d \in Decoders :
        LET r == dec[d]
            c == container[d]
        IN  (/\ \A e \in Decoders : dec[e].seeks = 0
             /\ \A e \in Decoders : dec[e].errLeft = MaxDecErrors) =>
              /\ r.delivered \o r.ready \o r.held = VideoSeq(c, 1, r.pos - 1)
              /\ (r.lastRet = "false" => r.delivered = AllPictures(c))

\* C20: flushed is terminal.  Once getNextFrame has returned false because
\* the drain reported end of stream, then until the next seek every step
\* leaves the delivered pictures as they are, and every getNextFrame call
\* that ends, ends with false.
C20_FlushedIsTerminal ==
    [][(dec[1].eos # "no" /\ dec'[1].seeks = dec[1].seeks) =>
          /\ dec'[1].eos # "no"
          /\ dec'[1].delivered = dec[1].delivered
          /\ dec'[1].lastRet \in {"false", "none"}
          /\ (dec[1].pc # "idle" /\ dec'[1].pc = "idle" /\ dec[1].mode = "next"
                => dec'[1].lastRet = "false")]_vars

C20_Witness ==
    /\ dec[1].eos = "called_again"
    /\ dec[1].pc = "idle"
    /\ dec[1].mode = "next"
    /\ dec[1].lastRet = "false"
    /\ dec[1].seeks = 0
    /\ dec[1].errLeft = MaxDecErrors
    /\ dec[1].delivered = AllPictures(container[1])

\* C21: no unit is written after the trailer.  Units are written only by a
\* constructed pump (the header is written by the constructor) and only
\* while no trailer has been written; once finalize() has completed, no
\* step of a later encodeFrame call writes a unit or a trailer, and such a
\* call does not end by throwing unless the capability reports a hard error
\* to it.
C21_NoUnitAfterTrailer ==
    [][/\ (written' # written =>
              epc \notin {"unconstructed", "ctor_failed"} /\ trailers = 0)
       /\ (m_finalized /\ epc' \notin {"release", "destroyed"} =>
              /\ written' = written
              /\ trailers' = trailers
              /\ (errLeft' = errLeft => ~thrown'))]_vars

\* The compressed units a decoder holds: the one its packet refers to and
\* those it read earlier and never released.
UnitsHeld(r) == (IF r.m_packet # 0 THEN {r.m_packet} ELSE {}) \cup r.unreleased

\* C22 (decode path): the unit read in one iteration is cleared before the
\* next unit is read into the packet, also when it was a discarded
\* non-video unit or the call returned false, so the pump never holds more
\* than one compressed unit.
C22_OneUnitInFlight ==
    /\ dec[1].unreleased = {}
    /\ Cardinality(UnitsHeld(dec[1])) <= 1

\* The pictures the forward scan of the last seek took from the codec: those
\* of the units read since the jump that are neither delivered nor still in
\* the codec.
ScanTaken(c, r) ==
    LET all == VideoSeq(c, r.jump, r.pos - 1)
        rest == r.delivered \o r.ready \o r.held
    IN  SubSeq(all, 1, Len(all) - Len(rest))

\* The target of the last seek is still on record.
TargetKnown(r) == r.mode = "seek" \/ r.probe \in {"seeked", "pending", "next"}

\* C23: seekToTimestamp discards all buffered decode state.  After a seek
\* whose jump succeeded (no hard error), whatever the decoder was doing when
\* the seek was called: the pictures delivered since, followed by those the
\* codec holds, are the last pictures of the units read since the jump, in
\* order (no picture from before the seek, none left out); the pictures
\* before them were taken by the seek's own scan, all below the target but
\* the one it stopped at; and getNextFrame returns false only when every
\* unit has been read and no picture is left, so decoding goes on after a
\* seek made at end of stream.
C23_SeekDiscardsBufferedState ==
    LET r == dec[1]
        c == container[1]
        all == VideoSeq(c, r.jump, r.pos - 1)
        rest == r.delivered \o r.ready \o r.held
        scan == ScanTaken(c, r)
    IN  (r.seeks > 0 /\ NoDecError) =>
          /\ Len(rest) <= Len(all)
          /\ scan \o rest = all
          /\ \A i \in DOMAIN r.delivered : r.delivered[i] >= r.jump
          /\ (TargetKnown(r) =>
                \A i \in DOMAIN scan :
                   \/ getBestEffortTimestampInMicroseconds(c, scan[i]) < r.target
                   \/ (i = Len(scan) /\ r.seekRet = "true"))
          /\ (r.mode = "next" /\ r.pc = "idle" /\ r.lastRet = "false" =>
                r.pos = Len(c.units) + 1 /\ r.ready \o r.held = <<>>)

C23_Witness ==
    LET r == dec[1]
    IN  /\ r.seekFrom.pending
        /\ r.seekFrom.buffered
        /\ NoDecError
        /\ r.probe = "next"
        /\ r.pc = "idle"
        /\ r.lastRet = "true"
        /\ r.jump > 1
        /\ r.delivered = <<r.jump + 1>>

\* The pictures of c whose normalised timestamp is at or after t, in stream
\* order.
AtOrAfter(c, t) ==
    SelectSeq(AllPictures(c),
              LAMBDA p : getBestEffortTimestampInMicroseconds(c, p) >= t)

\* C24: when seekToTimestamp(target) has returned true (no hard error), the
\* picture it stopped at is the first picture of the stream with normalised
\* timestamp >= target and was handed to no caller; the getNextFrame call
\* that follows delivers the picture after that one, or returns false when
\* that one was the last of the stream.
C24_SeekConsumesReachedPicture ==
    LET r == dec[1]
        c == container[1]
        from == AtOrAfter(c, r.target)
    IN  (NoDecError /\ r.seekRet = "true" /\ r.pc = "idle") =>
          /\ from # <<>>
          /\ (r.probe = "seeked" =>
                r.m_frame = from[1] /\ r.delivered = <<>>)
          /\ (r.probe = "next" =>
                IF Len(from) = 1
                  THEN r.lastRet = "false" /\ r.delivered = <<>>
                  ELSE /\ r.lastRet = "true"
                       /\ r.m_frame = from[2]
                       /\ r.delivered = <<from[2]>>
                       /\ r.lastTs = getBestEffortTimestampInMicroseconds(c, from[2]))

C24_Witness ==
    LET r == dec[1]
        c == container[1]
    IN  /\ NoDecError
        /\ r.seekRet = "true"
        /\ r.pc = "idle"
        /\ r.probe = "next"
        /\ r.target > 0
        /\ r.lastRet = "true"
        /\ r.jump < AtOrAfter(c, r.target)[1]
        /\ r.delivered = <<AtOrAfter(c, r.target)[2]>>

\* C25: seekToTimestamp flushes the codec before it asks the container to
\* jump.  A call whose jump fails returns false with the pictures the codec
\* held discarded and the codec out of draining, while the read position,
\* the packet and hasPendingFrames are as they were before the call.
C25_FailedSeekHasFlushed ==
    [][(dec'[1].seeks > dec[1].seeks /\ dec'[1].seekWhy = "seek_failed") =>
          /\ dec'[1].pc = "idle"
          /\ dec'[1].seekRet = "false"
          /\ dec'[1].held = <<>>
          /\ dec'[1].ready = <<>>
          /\ ~dec'[1].draining
          /\ dec'[1].pos = dec[1].pos
          /\ dec'[1].jump = dec[1].jump
          /\ dec'[1].m_packet = dec[1].m_packet
          /\ hasPendingFrames' = hasPendingFrames]_vars

C25_Witness ==
    LET r == dec[1]
    IN  /\ r.pc = "idle"
        /\ r.probe = "seeked"
        /\ r.seekWhy = "seek_failed"
        /\ r.seekRet = "false"
        /\ r.seekFrom.buffered
        /\ r.held \o r.ready = <<>>
        /\ r.pos > 1
        /\ hasPendingFrames

====
